---------------------------- MODULE Spec2Model ----------------------------
(***************************************************************************)
(* Timing instrumentation of ursa agents (src/ursa/agents/base.py):        *)
(* the timed_node wrapper with the per-instance run timer of BaseAgent,    *)
(* merge_metrics over metric ledgers, and BaseAgent._summarize_runs.       *)
(*                                                                         *)
(* Encoding of Python values:                                              *)
(*   None is <<>> and a non-None value v of a nullable slot is <<v>>;      *)
(*   a dict is a function from its keys (strings) to its values;           *)
(*   a list is a sequence;                                                 *)
(*   the values a step stores under the keys of an update mapping are      *)
(*   tagged: PyInt(n), PyList(s), PyDict(d); the value under the ledger    *)
(*   key "__metrics__" is a ledger, a dict from agent id to a list of      *)
(*   metric records (dicts);                                               *)
(*   a str that is only sliced (an exception text) is the sequence of its  *)
(*   characters.                                                           *)
(***************************************************************************)
EXTENDS Integers, Sequences, FiniteSets, TLC

VARIABLES
    now,      \* time.perf_counter(), in ticks of 1/TicksPerMs millisecond
    nextId,   \* the next value uuid.uuid4().hex yields (fresh on every call)
    agent,    \* the BaseAgent instance: thread_id and the three timer fields
    pc,       \* per caller: where its call of the wrapped step stands
    step,     \* per caller: the step function (fn) it called
    ret,      \* per caller: what the step body returned or raised, as it left the body
    out,      \* per caller: what the wrapper returned
    exc,      \* per caller: the exception that left the wrapper
    built,    \* per caller: the records _build_metric built during the call
    mine,     \* per caller: what the _start_timer of its call set (kept for the claims)
    mIn,      \* merge_metrics: the ledgers given
    mOut,     \* merge_metrics: the ledgers computed from them
    sIn,      \* _summarize_runs: the record list given
    sOut,     \* _summarize_runs: the stats computed from it
    tIn,      \* print_metrics: the ledger and top_k_slowest given
    tOut,     \* print_metrics: the list top computed from them
    proxy,    \* _ActionProxy.invoke: the locals of the call and what left it
    TOOL_TIMES, \* the module's list of (name, ms, ok)
    tool,     \* timed_tool: per thread the open calls of wrapped callables, and the
              \* outcome of the call that ended last
    session,  \* the host's session ledger and the results merged into it
    norm      \* _finish_with on objects: the list returned, the objects' contents
              \* before and after

vars == <<now, nextId, agent, pc, step, ret, out, exc, built, mine, mIn, mOut, sIn, sOut,
          tIn, tOut, proxy, TOOL_TIMES, tool, session, norm>>

nodeVars == <<now, nextId, agent, pc, step, ret, out, exc, built, mine>>
mergeVars == <<mIn, mOut>>
sumVars == <<sIn, sOut>>
topVars == <<tIn, tOut>>

\* All but the variables of the timed_node calls, of merge_metrics, of _summarize_runs.
toolVars == <<TOOL_TIMES, tool>>
extVars == <<topVars, proxy, toolVars, session, norm>>

\* All but the variables of one part.
restTop == <<nodeVars, mergeVars, sumVars, proxy, toolVars, session, norm>>
restProxy == <<mergeVars, sumVars, topVars, toolVars, session, norm>>
restTool == <<mergeVars, sumVars, topVars, proxy, session, norm>>
restSession == <<mergeVars, sumVars, topVars, proxy, toolVars, norm>>
restNorm == <<nodeVars, mergeVars, sumVars, topVars, proxy, toolVars, session>>

---------------------------------------------------------------------------
(* Bounds of the model *)

MaxClock == 2      \* the clock stops after this many ticks
TicksPerMs == 2    \* clock ticks per millisecond
MaxRuns == 2       \* calls of wrapped steps in one behaviour
MaxItems == 3      \* length of a list a step returns
MaxLen == 2        \* length of an agent's record list in a ledger given to merge_metrics
MaxRecs == 3       \* length of the record list given to _summarize_runs

MaxTop == 2        \* length of an agent's record list in the ledger given to print_metrics
MaxK == 3          \* the largest top_k_slowest given to print_metrics

MaxCalls == 2      \* calls of invoke through the action proxy in one behaviour

MaxDepth == 2      \* calls of wrapped callables open at once on one thread
MaxToolCalls == 3  \* calls of wrapped callables in one behaviour

(* Program constants *)

ErrLimit == 500    \* str(err)[:500]
P50 == 50          \* pct(0.50), in percent
P95 == 95          \* pct(0.95), in percent

---------------------------------------------------------------------------
(* Python values *)

None == <<>>
Some(v) == <<v>>

PyInt(n) == [t |-> "int", v |-> n]
PyList(s) == [t |-> "list", v |-> s]
PyDict(d) == [t |-> "dict", v |-> d]
IsList(x) == x.t = "list"
IsDict(x) == x.t = "dict"

\* A plain object a step hands back (a message).
Obj(i) == [kind |-> "obj", id |-> i]

EmptyDict == [k \in {} |-> None]

\* d[k] = v
DictSet(d, k, v) == [x \in DOMAIN d \cup {k} |-> IF x = k THEN v ELSE d[x]]

\* A pop that removes nothing.
DictPop_keep(d, k) == d

\* d.pop(k, None), as the dict it leaves
DictPop(d, k) == [x \in DOMAIN d \ {k} |-> d[x]]

\* a.update(b), as the dict it leaves
DictUpdate(a, b) == [x \in DOMAIN a \cup DOMAIN b |-> IF x \in DOMAIN b THEN b[x] ELSE a[x]]

\* No slice: the whole text.
Take_all(s, n) == s

\* s[:n]
Take(s, n) == SubSeq(s, 1, IF Len(s) < n THEN Len(s) ELSE n)

\* All sequences over S of length at most n.
SeqUpTo(S, n) == UNION {[1..k -> S] : k \in 0..n}

_METRICS_KEY == "__metrics__"

\* langgraph.types.Command, with the attributes timed_node reads; an attribute
\* the constructor is not given is None.
CommandAttrs == {"goto", "graph", "interrupt", "sleep"}

LGCommand(kwargs) ==
    [kind |-> "Command",
     update |-> IF "update" \in DOMAIN kwargs THEN Some(kwargs["update"]) ELSE None,
     goto |-> IF "goto" \in DOMAIN kwargs THEN Some(kwargs["goto"]) ELSE None,
     graph |-> IF "graph" \in DOMAIN kwargs THEN Some(kwargs["graph"]) ELSE None,
     interrupt |-> IF "interrupt" \in DOMAIN kwargs THEN Some(kwargs["interrupt"]) ELSE None,
     sleep |-> IF "sleep" \in DOMAIN kwargs THEN Some(kwargs["sleep"]) ELSE None]

IsCommand(x) == x.kind = "Command"

\* getattr(cmd, "update", {}) or {}
UpdateOf(cmd) == IF cmd.update = None THEN EmptyDict ELSE cmd.update[1]

---------------------------------------------------------------------------
(* The run timer of BaseAgent *)

\* The instance after __init__.
NewAgent == [thread_id |-> "A", _run_id |-> None, _run_start |-> None,
             _run_wall_start |-> None]

\* datetime.now(timezone.utc).isoformat(): the wall clock read at tick t
\* (the model's wall clock advances with the performance counter).
IsoNow(t) == t

\* int((time.perf_counter() - self._run_start) * 1000)
IntMs(ticks) == ticks \div TicksPerMs

\* A start that leaves a populated timer as it is.
_start_timer_keep(self, id, clock) ==
    IF self._run_id # None
      THEN self
      ELSE [self EXCEPT !._run_id = Some(id),
                        !._run_start = Some(clock),
                        !._run_wall_start = Some(IsoNow(clock))]

_start_timer(self, id, clock) ==
    [self EXCEPT !._run_id = Some(id),
                 !._run_start = Some(clock),
                 !._run_wall_start = Some(IsoNow(clock))]

\* err is None or Some(exception); extra is a dict (empty for None).
_build_metric(self, clock, ok, err, extra) ==
    LET duration_ms == IF self._run_start = None
                         THEN 0
                         ELSE IntMs(clock - self._run_start[1])
        metric == [agent |-> self.thread_id,
                   run_id |-> self._run_id,
                   ok |-> ok,
                   started_at |-> self._run_wall_start,
                   duration_ms |-> duration_ms]
        withErr == IF err # None
                     THEN DictUpdate(metric,
                                     [error_type |-> err[1].type,
                                      error |-> Take(err[1].text, ErrLimit)])
                     ELSE metric
    IN  DictUpdate(withErr, extra)

_inject_metric(self, updates, metric) ==
    LET bucket == IF _METRICS_KEY \in DOMAIN updates
                    THEN updates[_METRICS_KEY] ELSE EmptyDict
        runs == IF self.thread_id \in DOMAIN bucket
                  THEN bucket[self.thread_id] ELSE <<>>
    IN  DictSet(updates, _METRICS_KEY,
                DictSet(bucket, self.thread_id, Append(runs, metric)))

\* The wall-clock start left set.
ClearTimer_partial(self) == [self EXCEPT !._run_id = None, !._run_start = None]

\* The three per-run fields cleared.
ClearTimer(self) ==
    [self EXCEPT !._run_id = None, !._run_start = None, !._run_wall_start = None]

\* Yields the instance afterwards, the updates returned and the record built.
_finish_timer(self, clock, updates, ok, err, extra) ==
    LET metric == _build_metric(self, clock, ok, err, extra)
    IN  [self |-> ClearTimer(self),
         updates |-> _inject_metric(self, updates, metric),
         metric |-> metric]

---------------------------------------------------------------------------
(* timed_node *)

\* The later value put in place of the earlier, whatever the two are.
_merge_updates_replace(into, add) ==
    [k \in DOMAIN into \cup (DOMAIN add \ {_METRICS_KEY}) |->
        IF k \notin DOMAIN add \/ k = _METRICS_KEY THEN into[k] ELSE add[k]]

\* The values of two updates are values of their own: no list or dict is held
\* by both (by what the in-place extend and update do to the objects, see the
\* calls of _finish_with on objects).
_merge_updates(into, add) ==
    [k \in DOMAIN into \cup (DOMAIN add \ {_METRICS_KEY}) |->
        IF k \notin DOMAIN add \/ k = _METRICS_KEY
          THEN into[k]
        ELSE IF k \in DOMAIN into /\ IsList(into[k]) /\ IsList(add[k])
          THEN PyList(into[k].v \o add[k].v)
        ELSE IF k \in DOMAIN into /\ IsDict(into[k]) /\ IsDict(add[k])
          THEN PyDict(DictUpdate(into[k].v, add[k].v))
        ELSE add[k]]

\* The item put in front.
AppendMsg_front(msgs, item) == <<item>> \o msgs

\* msgs.append(item)
AppendMsg(msgs, item) == Append(msgs, item)

\* The loop of _finish_with over the items of a list; st holds msgs, merged, has_cmd.
RECURSIVE ScanItems(_, _)
ScanItems(items, st) ==
    IF items = <<>>
      THEN st
      ELSE LET item == Head(items)
               upd == UpdateOf(item)
               hasMsgs == "messages" \in DOMAIN upd
               after ==
                   IF IsCommand(item)
                     THEN [msgs |-> IF hasMsgs THEN st.msgs \o upd["messages"].v
                                               ELSE st.msgs,
                           merged |-> _merge_updates(st.merged,
                                          IF hasMsgs THEN DictPop(upd, "messages")
                                                     ELSE upd),
                           has_cmd |-> TRUE]
                     ELSE [st EXCEPT !.msgs = AppendMsg(@, item)]
           IN  ScanItems(Tail(items), after)

\* The attributes of the original left out.
CommandKwargs_update_only(cmd, upd) == [update |-> upd]

\* The Command branch: the keyword arguments of the rebuilt Command.
CommandKwargs(cmd, upd) ==
    LET present == {a \in CommandAttrs : cmd[a] # None}
    IN  [k \in {"update"} \cup present |-> IF k = "update" THEN upd ELSE cmd[k][1]]

\* Yields the instance afterwards, the value returned, and the records built
\* by the calls of _finish_timer, in order.
_finish_with(self, clock, r, node_name) ==
    LET extra == [node |-> node_name]
    IN  IF r.kind = "Command" THEN
            LET upd == DictPop(UpdateOf(r), _METRICS_KEY)
                fin == _finish_timer(self, clock, upd, TRUE, None, extra)
            IN  [self |-> fin.self,
                 out |-> LGCommand(CommandKwargs(r, fin.updates)),
                 built |-> <<fin.metric>>]
        ELSE IF r.kind = "list" THEN
            LET st == ScanItems(r.items,
                                [msgs |-> <<>>, merged |-> EmptyDict, has_cmd |-> FALSE])
            IN  IF st.has_cmd THEN
                    LET merged == DictPop(DictSet(st.merged, "messages", PyList(st.msgs)),
                                          _METRICS_KEY)
                        fin == _finish_timer(self, clock, merged, TRUE, None, extra)
                    IN  [self |-> fin.self,
                         out |-> LGCommand([update |-> fin.updates]),
                         built |-> <<fin.metric>>]
                ELSE
                    LET updates == DictPop([messages |-> PyList(st.msgs)], _METRICS_KEY)
                        fin == _finish_timer(self, clock, updates, TRUE, None, extra)
                    IN  [self |-> fin.self,
                         out |-> [kind |-> "dict", d |-> fin.updates],
                         built |-> <<fin.metric>>]
        ELSE IF r.kind = "dict" THEN
            LET fin == _finish_timer(self, clock, DictPop(r.d, _METRICS_KEY),
                                     TRUE, None, extra)
            IN  [self |-> fin.self,
                 out |-> [kind |-> "dict", d |-> fin.updates],
                 built |-> <<fin.metric>>]
        ELSE
            LET fin == _finish_timer(self, clock, EmptyDict, TRUE, None, extra)
            IN  [self |-> fin.self, out |-> r, built |-> <<fin.metric>>]

---------------------------------------------------------------------------
(* What steps return and raise *)

Frames == {1, 2}

\* The wrapped step functions: fn.__name__, and whether fn is a coroutine function.
Steps == {[name |-> "plan", is_async |-> FALSE], [name |-> "act", is_async |-> TRUE]}

\* Records a ledger may hold already when a step hands it back.
Old1 == [agent |-> "A", run_id |-> Some(91), ok |-> TRUE, started_at |-> Some(0),
         duration_ms |-> 7, node |-> "plan"]
Old2 == [agent |-> "A", run_id |-> Some(92), ok |-> FALSE, started_at |-> Some(0),
         duration_ms |-> 0, node |-> "act"]

OldLedgers == {EmptyDict, [A |-> <<Old1>>], [A |-> <<Old1, Old2>>], [B |-> <<Old1>>]}

PlainDicts == {EmptyDict,
               [x |-> PyInt(1)],
               [x |-> PyInt(1), messages |-> PyList(<<Obj("m1")>>)]}

\* Update mappings with and without a ledger under the ledger key.
UpdateDicts == PlainDicts \cup
               {DictSet(d, _METRICS_KEY, l) : d \in PlainDicts, l \in OldLedgers}

DictRets == {[kind |-> "dict", d |-> d] : d \in UpdateDicts}

CommandUpdates == {EmptyDict,
                   [x |-> PyInt(1)],
                   [x |-> PyInt(1), messages |-> PyList(<<Obj("m1")>>)],
                   DictSet([x |-> PyInt(2)], _METRICS_KEY, [A |-> <<Old1>>])}

AttrValue(a) == IF a = "goto" THEN "n2"
                ELSE IF a = "graph" THEN "PARENT"
                ELSE IF a = "interrupt" THEN "ask"
                ELSE 5

\* The attributes a returned Command has set.
AttrChoices == {{}, {"goto"}, {"interrupt"}, {"graph", "sleep"}, CommandAttrs}

\* Commands with an update or with none.
CommandRets ==
    {LGCommand([k \in S |-> AttrValue(k)]) : S \in AttrChoices}
    \cup
    {LGCommand([k \in S \cup {"update"} |-> IF k = "update" THEN u ELSE AttrValue(k)]) :
        S \in AttrChoices, u \in CommandUpdates}

\* What a returned list may hold: plain messages and Commands.
ItemCommands ==
    {LGCommand([update |-> [x |-> PyInt(1)], goto |-> "n2"]),
     LGCommand([update |-> DictSet([items |-> PyList(<<Obj("a")>>),
                                    ctx |-> PyDict([p |-> PyInt(1)]),
                                    messages |-> PyList(<<Obj("m3")>>)],
                                   _METRICS_KEY, [A |-> <<Old1>>])]),
     LGCommand([update |-> [items |-> PyList(<<Obj("b")>>),
                            ctx |-> PyDict([p |-> PyInt(2), q |-> PyInt(3)]),
                            x |-> PyList(<<>>)]])}

Items == {Obj("m1"), Obj("m2")} \cup ItemCommands

ListRets == {[kind |-> "list", items |-> l] : l \in SeqUpTo(Items, MaxItems)}

OtherRets == {[kind |-> "other", v |-> "text"], [kind |-> "other", v |-> "none"]}

Returns == DictRets \cup CommandRets \cup ListRets \cup OtherRets

\* str(err) of n characters.
Text(n) == [i \in 1..n |-> i % 10]

\* What a step raises: is_exception is isinstance(e, Exception), which is false of
\* asyncio.CancelledError and KeyboardInterrupt.
Raised ==
    {[type |-> "ValueError", text |-> Text(n), is_exception |-> TRUE] :
        n \in {0, 3, ErrLimit, ErrLimit + 1}}
    \cup {[type |-> "KeyError", text |-> Text(3), is_exception |-> TRUE],
          [type |-> "CancelledError", text |-> Text(0), is_exception |-> FALSE]}

---------------------------------------------------------------------------
(* Calls of a timed_node-wrapped step on one BaseAgent instance *)

NodeInit ==
    /\ now = 0
    /\ nextId = 1
    /\ agent = NewAgent
    /\ pc = [f \in Frames |-> "idle"]
    /\ step = [f \in Frames |-> None]
    /\ ret = [f \in Frames |-> None]
    /\ out = [f \in Frames |-> None]
    /\ exc = [f \in Frames |-> None]
    /\ built = [f \in Frames |-> <<>>]
    /\ mine = [f \in Frames |-> None]

MergeIdle == mIn = <<>> /\ mOut = <<>>
SumIdle == sIn = <<>> /\ sOut = <<>>
TopIdle == tIn = <<>> /\ tOut = <<>>

\* No call through the proxy is open.
ProxyIdle ==
    proxy = [pc |-> "idle", calls |-> 0, t0 |-> None, wall |-> None, t1 |-> None,
             ok |-> TRUE, inner |-> None, res |-> None, out |-> None, exc |-> None,
             swallowed |-> FALSE]

\* The module as imported: no wrapped callable called yet.
ToolIdle == TOOL_TIMES = <<>> /\ tool = <<>>

SessionIdle == session = <<>>
NormIdle == norm = <<>>

\* Nothing else is in use.
ExtIdle == TopIdle /\ ProxyIdle /\ ToolIdle /\ SessionIdle /\ NormIdle

Init == NodeInit /\ MergeIdle /\ SumIdle /\ ExtIdle

\* Time passes.
Tick ==
    /\ now < MaxClock
    /\ now' = now + 1
    /\ UNCHANGED <<nextId, agent, pc, step, ret, out, exc, built, mine, mergeVars, sumVars,
                   extVars>>

\* wrapper, up to the call of fn: self._start_timer().
Invoke(f, fn) ==
    /\ pc[f] = "idle"
    /\ nextId <= MaxRuns
    /\ agent' = _start_timer(agent, nextId, now)
    /\ nextId' = nextId + 1
    /\ pc' = [pc EXCEPT ![f] = "running"]
    /\ step' = [step EXCEPT ![f] = Some(fn)]
    /\ mine' = [mine EXCEPT ![f] = Some([run_id |-> nextId, clock |-> now,
                                          wall |-> IsoNow(now)])]
    /\ UNCHANGED <<now, ret, out, exc, built, mergeVars, sumVars, extVars>>

\* fn returns r: return _finish_with(self, ret, fn.__name__).
StepReturns(f, r) ==
    /\ pc[f] = "running"
    /\ LET fw == _finish_with(agent, now, r, step[f][1].name)
       IN  /\ agent' = fw.self
           /\ out' = [out EXCEPT ![f] = Some(fw.out)]
           /\ built' = [built EXCEPT ![f] = @ \o fw.built]
    /\ ret' = [ret EXCEPT ![f] = Some(r)]
    /\ pc' = [pc EXCEPT ![f] = "returned"]
    /\ UNCHANGED <<now, nextId, step, exc, mine, mergeVars, sumVars, extVars>>

\* The bare raise of the except clause: the exception being handled goes on.
Reraise(e) == e

\* The timer finished for whatever is raised.
StepRaises_finish_always(f, e) ==
    /\ pc[f] = "running"
    /\ LET fin == _finish_timer(agent, now, EmptyDict, FALSE, Some(e),
                                [node |-> step[f][1].name])
       IN  /\ agent' = fin.self
           /\ built' = [built EXCEPT ![f] = Append(@, fin.metric)]
    /\ exc' = [exc EXCEPT ![f] = Some(e)]
    /\ ret' = [ret EXCEPT ![f] = Some([kind |-> "raise", e |-> e])]
    /\ pc' = [pc EXCEPT ![f] = "raised"]
    /\ UNCHANGED <<now, nextId, step, out, mine, mergeVars, sumVars, extVars>>

\* fn raises e: the except Exception clause finishes the timer and re-raises;
\* what is no Exception (asyncio.CancelledError, GeneratorExit of an abandoned
\* coroutine, KeyboardInterrupt) passes through it.
StepRaises(f, e) ==
    /\ pc[f] = "running"
    /\ IF e.is_exception
         THEN LET fin == _finish_timer(agent, now, EmptyDict, FALSE, Some(e),
                                       [node |-> step[f][1].name])
              IN  /\ agent' = fin.self
                  /\ built' = [built EXCEPT ![f] = Append(@, fin.metric)]
         ELSE UNCHANGED <<agent, built>>
    /\ exc' = [exc EXCEPT ![f] = Some(Reraise(e))]
    /\ ret' = [ret EXCEPT ![f] = Some([kind |-> "raise", e |-> e])]
    /\ pc' = [pc EXCEPT ![f] = "raised"]
    /\ UNCHANGED <<now, nextId, step, out, mine, mergeVars, sumVars, extVars>>

\* The caller has taken the result; its frame is gone.
Collect(f) ==
    /\ pc[f] \in {"returned", "raised"}
    /\ pc' = [pc EXCEPT ![f] = "idle"]
    /\ step' = [step EXCEPT ![f] = None]
    /\ ret' = [ret EXCEPT ![f] = None]
    /\ out' = [out EXCEPT ![f] = None]
    /\ exc' = [exc EXCEPT ![f] = None]
    /\ built' = [built EXCEPT ![f] = <<>>]
    /\ mine' = [mine EXCEPT ![f] = None]
    /\ UNCHANGED <<now, nextId, agent, mergeVars, sumVars, extVars>>

\* The host runs the steps of one instance one after another: no call is open.
AllIdle == \A g \in Frames : pc[g] = "idle"

Next ==
    \/ Tick
    \/ \E f \in Frames, fn \in Steps : AllIdle /\ Invoke(f, fn)
    \/ \E f \in Frames, r \in Returns : StepReturns(f, r)
    \/ \E f \in Frames, e \in Raised : StepRaises(f, e)
    \/ \E f \in Frames : Collect(f)

Spec == Init /\ [][Next]_vars

---------------------------------------------------------------------------
(* Claims about timed_node *)

\* The records d holds for agent a under the ledger key.
RecordsFor(d, a) ==
    IF _METRICS_KEY \in DOMAIN d /\ a \in DOMAIN d[_METRICS_KEY]
      THEN d[_METRICS_KEY][a] ELSE <<>>

TimerIdle(self) ==
    self._run_id = None /\ self._run_start = None /\ self._run_wall_start = None

TimerPopulated(self) ==
    self._run_id # None /\ self._run_start # None /\ self._run_wall_start # None

ReturnedKind(f, kind) == pc[f] = "returned" /\ ret[f][1].kind = kind

\* The wrapper's except Exception clause handled what the step raised.
Reraised(f) == pc[f] = "raised" /\ ret[f][1].e.is_exception

\* C1 as stated: a step that returns a plain dict gets back a dict whose record
\* list for this agent is one longer than the list the dict held before, whatever
\* it held, the added record having duration_ms >= 0 and node = the step's name.
C1_OneMoreThanBefore ==
    \A f \in Frames : ReturnedKind(f, "dict") =>
        LET before == RecordsFor(ret[f][1].d, agent.thread_id)
            after == RecordsFor(out[f][1].d, agent.thread_id)
        IN  /\ Len(after) = Len(before) + 1
            /\ after[Len(after)].duration_ms >= 0
            /\ after[Len(after)].node = step[f][1].name

\* C1 as amended: a step that returns a plain dict gets back a dict whose record
\* list for this agent holds exactly one record, whatever the dict held under the
\* ledger key before (that is discarded); the record has duration_ms >= 0 and
\* node = the step's name.
C1_DictHoldsOneRecord ==
    \A f \in Frames : ReturnedKind(f, "dict") =>
        LET after == RecordsFor(out[f][1].d, agent.thread_id)
        IN  /\ out[f][1].kind = "dict"
            /\ Len(after) = 1
            /\ after[1].duration_ms >= 0
            /\ after[1].node = step[f][1].name

\* A dict that held two records of this agent came back holding one.
C1_Witness ==
    \E f \in Frames :
        /\ ReturnedKind(f, "dict")
        /\ Len(RecordsFor(ret[f][1].d, agent.thread_id)) = 2
        /\ Len(RecordsFor(out[f][1].d, agent.thread_id)) = 1

\* C6: when the step raises an Exception, finish is called exactly once, with
\* ok=false: the record built has ok = false, error_type = the exception's type
\* name, an error text of at most 500 characters (the start of the exception's
\* text) and node = the step's name; the same exception leaves the wrapper and
\* no value is returned.
C6_RaiseRecordsAndPropagates ==
    \A f \in Frames : Reraised(f) =>
        LET e == ret[f][1].e
        IN  /\ Len(built[f]) = 1
            /\ built[f][1].ok = FALSE
            /\ built[f][1].error_type = e.type
            /\ Len(built[f][1].error) <= ErrLimit
            /\ built[f][1].error = SubSeq(e.text, 1, Len(built[f][1].error))
            /\ built[f][1].node = step[f][1].name
            /\ exc[f] = Some(e)
            /\ out[f] = None

\* A step raised an exception whose text is longer than 500 characters.
C6_Witness ==
    \E f \in Frames :
        /\ Reraised(f)
        /\ Len(ret[f][1].e.text) > ErrLimit
        /\ Len(built[f][1].error) = ErrLimit

\* The Commands among the items of a list.
CommandsIn(items) == {i \in 1..Len(items) : IsCommand(items[i])}

NotCommand(x) == ~IsCommand(x)

\* The step of f returned a list of plain messages and exactly one Command,
\* whose update has neither a messages key nor the ledger key.
OneCleanCommand(f) ==
    /\ ReturnedKind(f, "list")
    /\ Cardinality(CommandsIn(ret[f][1].items)) = 1
    /\ \A i \in CommandsIn(ret[f][1].items) :
           DOMAIN UpdateOf(ret[f][1].items[i]) \cap {"messages", _METRICS_KEY} = {}

\* C7: a list of plain messages m1..mk and exactly one Command whose update U
\* has neither a messages key nor the ledger key comes back as a single Command
\* whose update is U plus messages = [m1..mk] in their order plus the ledger key
\* holding exactly one record for this agent, wherever the Command sits.
C7_ListWithOneCommand ==
    \A f \in Frames : OneCleanCommand(f) =>
        LET items == ret[f][1].items
            U == UpdateOf(items[CHOOSE i \in CommandsIn(items) : TRUE])
            res == out[f][1]
            u == res.update[1]
        IN  /\ IsCommand(res)
            /\ res.update # None
            /\ DOMAIN u = DOMAIN U \cup {"messages", _METRICS_KEY}
            /\ \A k \in DOMAIN U : u[k] = U[k]
            /\ u["messages"] = PyList(SelectSeq(items, NotCommand))
            /\ DOMAIN u[_METRICS_KEY] = {agent.thread_id}
            /\ Len(u[_METRICS_KEY][agent.thread_id]) = 1

\* A message, then the Command, then another message.
C7_Witness ==
    \E f \in Frames :
        /\ OneCleanCommand(f)
        /\ Len(ret[f][1].items) = 3
        /\ CommandsIn(ret[f][1].items) = {2}
        /\ ret[f][1].items[1] # ret[f][1].items[3]
        /\ out[f][1].update[1]["messages"].v = <<ret[f][1].items[1], ret[f][1].items[3]>>

\* C8: a returned Command comes back as a new Command whose goto, graph,
\* interrupt and sleep equal the original's wherever those were not None, and
\* whose update is the original update with every key but the ledger key
\* unchanged, a ledger it held discarded, and under the ledger key exactly one
\* record, that of this call (node = the step's name), in this agent's bucket.
C8_CommandRebuilt ==
    \A f \in Frames : ReturnedKind(f, "Command") =>
        LET orig == ret[f][1]
            U == UpdateOf(orig)
            res == out[f][1]
            u == res.update[1]
        IN  /\ IsCommand(res)
            /\ \A a \in CommandAttrs : orig[a] # None => res[a] = orig[a]
            /\ res.update # None
            /\ DOMAIN u = DOMAIN U \cup {_METRICS_KEY}
            /\ \A k \in DOMAIN U \ {_METRICS_KEY} : u[k] = U[k]
            /\ DOMAIN u[_METRICS_KEY] = {agent.thread_id}
            /\ u[_METRICS_KEY][agent.thread_id] = built[f]
            /\ Len(built[f]) = 1
            /\ built[f][1].node = step[f][1].name
            /\ built[f][1].run_id = Some(nextId - 1)

\* A Command with all four attributes set and a ledger in its update came back.
C8_Witness ==
    \E f \in Frames :
        /\ ReturnedKind(f, "Command")
        /\ \A a \in CommandAttrs : ret[f][1][a] # None /\ out[f][1][a] = ret[f][1][a]
        /\ RecordsFor(UpdateOf(ret[f][1]), agent.thread_id) # <<>>
        /\ RecordsFor(out[f][1].update[1], agent.thread_id) = built[f]

\* A call of f ends: its step's value is returned, or its exception re-raised.
Ends(f) ==
    /\ pc[f] = "running"
    /\ pc'[f] \in {"returned", "raised"}
    /\ ret'[f][1].kind = "raise" => ret'[f][1].e.is_exception

\* C9: per call of a wrapped step the run timer goes idle -> running -> idle: it
\* is idle at first, its three fields are all set from the start of the call and
\* while the step body runs, and all None once the wrapper has returned (for a
\* Command, a list, a dict, anything else) or re-raised; finish is called exactly
\* once per call, not before the body ends.
C9_TimerLifecycle ==
    /\ TimerIdle(agent)
    /\ [](\A f \in Frames : pc[f] = "running" =>
              TimerPopulated(agent) /\ built[f] = <<>>)
    /\ [][\A f \in Frames :
              /\ (pc[f] = "idle" /\ pc'[f] = "running") => TimerPopulated(agent')
              /\ Ends(f) => TimerIdle(agent') /\ Len(built'[f]) = 1]_vars

\* A second call that returned what is neither Command, list nor dict, or
\* re-raised, with one record built and the timer idle.
C9_Witness ==
    \E f \in Frames :
        /\ \/ ReturnedKind(f, "other")
           \/ Reraised(f)
        /\ nextId > 2
        /\ Len(built[f]) = 1
        /\ TimerIdle(agent)

---------------------------------------------------------------------------
(* merge_metrics *)

\* The fields of a metric record whose value may be None (held as <<>> or <<v>>).
Nullable == {"run_id", "started_at"}

\* r.get(k): None for a key the record lacks.
RecGet(r, k) ==
    IF k \notin DOMAIN r THEN None
    ELSE IF k \in Nullable THEN r[k]
    ELSE Some(r[k])

\* The key without the run_id.
DedupKey_no_run_id(r) == <<RecGet(r, "started_at"), RecGet(r, "duration_ms")>>

\* (r.get("run_id"), r.get("started_at"), r.get("duration_ms"))
DedupKey(r) == <<RecGet(r, "run_id"), RecGet(r, "started_at"), RecGet(r, "duration_ms")>>

\* The set comprehension that builds seen from dest; the loop keeps it so.
SeenOf(dest) == {DedupKey(dest[i]) : i \in 1..Len(dest)}

\* Every record of runs appended, seen or not.
AppendNew_all(dest, runs) == dest \o runs

\* seen never added to: the records of runs are held against dest as it was.
AppendNew_seen_fixed(dest, runs) ==
    dest \o SelectSeq(runs, LAMBDA r : DedupKey(r) \notin SeenOf(dest))

\* The inner loop: each record of runs whose key is not seen is appended to dest
\* and its key added to seen.
RECURSIVE AppendNew(_, _)
AppendNew(dest, runs) ==
    IF runs = <<>>
      THEN dest
      ELSE AppendNew(IF DedupKey(Head(runs)) \notin SeenOf(dest)
                       THEN Append(dest, Head(runs)) ELSE dest,
                     Tail(runs))

\* Only the agents of curr kept.
merge_metrics_curr_agents(curr, delta) ==
    [a \in DOMAIN curr |->
        AppendNew(curr[a], IF a \in DOMAIN delta THEN delta[a] ELSE <<>>)]

\* The first record of each list of delta skipped.
merge_metrics_skip_first(curr, delta) ==
    [a \in DOMAIN curr \cup DOMAIN delta |->
        AppendNew(IF a \in DOMAIN curr THEN curr[a] ELSE <<>>,
                  IF a \in DOMAIN delta /\ delta[a] # <<>> THEN Tail(delta[a]) ELSE <<>>)]

\* curr and delta are ledgers; None and the empty dict are both <<>>.
merge_metrics(curr, delta) ==
    [a \in DOMAIN curr \cup DOMAIN delta |->
        AppendNew(IF a \in DOMAIN curr THEN curr[a] ELSE <<>>,
                  IF a \in DOMAIN delta THEN delta[a] ELSE <<>>)]

\* Records given to merge_metrics: MR1 and MR1b differ and share their key;
\* MR2 has no run_id.
MR1 == [run_id |-> Some(1), started_at |-> Some(0), duration_ms |-> 5, ok |-> TRUE]
MR1b == [run_id |-> Some(1), started_at |-> Some(0), duration_ms |-> 5, ok |-> FALSE]
MR2 == [started_at |-> Some(0), duration_ms |-> 5, ok |-> TRUE]

MergeRecs == {MR1, MR1b, MR2}

\* Ledgers of one agent: without the agent, or with a list of its records.
LedgersA == {EmptyDict} \cup {[A |-> l] : l \in SeqUpTo(MergeRecs, MaxLen)}

\* Ledgers of two agents.
LedgersAB == LedgersA \cup {DictSet(l, "B", <<MR1>>) : l \in LedgersA}

InitMerge ==
    /\ NodeInit
    /\ SumIdle
    /\ ExtIdle
    /\ mIn \in [a : LedgersAB, b : LedgersAB, c : LedgersA]
    /\ mOut = <<>>

\* The calls of merge_metrics on the ledgers given.
MergeCalls ==
    /\ mOut = <<>>
    /\ mOut' = [aa |-> merge_metrics(mIn.a, mIn.a),
                ab |-> merge_metrics(mIn.a, mIn.b),
                ba |-> merge_metrics(mIn.b, mIn.a),
                ab_b |-> merge_metrics(merge_metrics(mIn.a, mIn.b), mIn.b),
                ab_c |-> merge_metrics(merge_metrics(mIn.a, mIn.b), mIn.c),
                a_bc |-> merge_metrics(mIn.a, merge_metrics(mIn.b, mIn.c))]
    /\ UNCHANGED <<mIn, nodeVars, sumVars, extVars>>

NextMerge == MergeCalls

SpecMerge == InitMerge /\ [][NextMerge]_vars

---------------------------------------------------------------------------
(* Claims about merge_metrics *)

Merged == mOut # <<>>

\* The records ledger l holds for agent a.
ListOf(l, a) == IF a \in DOMAIN l THEN l[a] ELSE <<>>

\* The places of d whose key is the key of no record of c and of no earlier
\* record of d.
FreshIn(c, d) ==
    {i \in 1..Len(d) :
        /\ \A j \in 1..Len(c) : DedupKey(c[j]) # DedupKey(d[i])
        /\ \A j \in 1..(i - 1) : DedupKey(d[j]) # DedupKey(d[i])}

\* The n-th smallest member of a set of numbers.
NthOf(S, n) == CHOOSE i \in S : Cardinality({j \in S : j <= i}) = n

\* c followed by the records of d at the places FreshIn(c, d), in d's order.
CurrThenFresh(c, d) ==
    c \o [n \in 1..Cardinality(FreshIn(c, d)) |-> d[NthOf(FreshIn(c, d), n)]]

\* C2: merge_metrics is idempotent: merging a ledger with itself gives that
\* ledger, and merging the same delta a second time adds no record.
C2_Idempotent ==
    Merged => /\ mOut.aa = mIn.a
              /\ mOut.ab_b = mOut.ab

\* The first merge of b added records, the second none.
C2_Witness ==
    /\ Merged
    /\ Len(ListOf(mOut.ab, "A")) > Len(ListOf(mIn.a, "A"))
    /\ Len(ListOf(mIn.a, "A")) > 0
    /\ mOut.ab_b = mOut.ab

\* C3: merge_metrics(curr, delta) holds, for each agent of either ledger, curr's
\* records in their order followed by exactly the records of delta, in delta's
\* order, whose key (run_id, started_at, duration_ms) is the key of no record
\* already in the result.
C3_CurrThenUnseenDelta ==
    Merged =>
        /\ DOMAIN mOut.ab = DOMAIN mIn.a \cup DOMAIN mIn.b
        /\ \A a \in DOMAIN mOut.ab :
               mOut.ab[a] = CurrThenFresh(ListOf(mIn.a, a), ListOf(mIn.b, a))

\* {A: [r1]} merged with {A: [r1, r2]} is {A: [r1, r2]}.
C3_Witness ==
    /\ Merged
    /\ mIn.a = [A |-> <<MR1>>]
    /\ mIn.b = [A |-> <<MR1, MR2>>]
    /\ mOut.ab = [A |-> <<MR1, MR2>>]

\* C4 as stated: merge_metrics is commutative.
C4_Commutative == Merged => mOut.ab = mOut.ba

\* C4 as amended: merge_metrics is commutative up to the order of the records
\* and the choice among records that share a key: merge_metrics(A, B) and
\* merge_metrics(B, A) have the same agents and, for each agent, the same set of
\* keys (run_id, started_at, duration_ms).
C4_SameKeysEitherOrder ==
    Merged =>
        /\ DOMAIN mOut.ab = DOMAIN mOut.ba
        /\ \A a \in DOMAIN mOut.ab : SeenOf(mOut.ab[a]) = SeenOf(mOut.ba[a])

\* The two orders give different ledgers with the same keys.
C4_Witness ==
    /\ Merged
    /\ mOut.ab # mOut.ba
    /\ "A" \in DOMAIN mOut.ab
    /\ SeenOf(mOut.ab["A"]) = SeenOf(mOut.ba["A"])
    /\ Cardinality(SeenOf(mOut.ab["A"])) = 2

\* C5: merge_metrics is associative, also for ledgers in which distinct records
\* share a key or a list repeats a record.
C5_Associative == Merged => mOut.ab_c = mOut.a_bc

\* a repeats a record, b and c hold another record with the same key.
C5_Witness ==
    /\ Merged
    /\ mIn.a = [A |-> <<MR1, MR1>>]
    /\ mIn.b = [A |-> <<MR1b, MR2>>, B |-> <<MR1>>]
    /\ mIn.c = [A |-> <<MR2, MR1b>>]
    /\ mOut.ab_c = [A |-> <<MR1, MR1, MR2>>, B |-> <<MR1>>]

---------------------------------------------------------------------------
(* BaseAgent._summarize_runs *)

\* int(r.get("duration_ms", 0))
DurOf(r) == IF "duration_ms" \in DOMAIN r THEN r["duration_ms"] ELSE 0

\* r.get("ok", True)
OkOf(r) == IF "ok" \in DOMAIN r THEN r["ok"] ELSE TRUE

\* sorted(durs): each number put after those not greater, from the first on.
RECURSIVE InsertSorted(_, _)
InsertSorted(s, x) ==
    IF s = <<>> THEN <<x>>
    ELSE IF x < Head(s) THEN <<x>> \o s
    ELSE <<Head(s)>> \o InsertSorted(Tail(s), x)

RECURSIVE Sorted(_)
Sorted(s) == IF s = <<>> THEN <<>> ELSE InsertSorted(Sorted(SubSeq(s, 1, Len(s) - 1)), s[Len(s)])

\* sum(...) of a list of numbers
RECURSIVE SumSeq(_)
SumSeq(s) == IF s = <<>> THEN 0 ELSE Head(s) + SumSeq(Tail(s))

\* int(a / n) for n > 0: the quotient cut towards zero.
IntDiv(a, n) == IF a >= 0 THEN a \div n ELSE -((-a) \div n)

\* The rank cut down, not up.
CeilOf_floor(pct, n) == (pct * n) \div 100

\* math.ceil(p * n), p given in percent
CeilOf(pct, n) == (pct * n + 99) \div 100

Max2(a, b) == IF a >= b THEN a ELSE b
Min2(a, b) == IF a <= b THEN a ELSE b

\* The rank taken without the - 1.
PctIndex_no_minus_one(pct, n) == Max2(0, Min2(n - 1, CeilOf(pct, n)))

\* k of pct(p): max(0, min(n - 1, int(math.ceil(p * n) - 1))), counted from 0
PctIndex(pct, n) == Max2(0, Min2(n - 1, CeilOf(pct, n) - 1))

_summarize_runs(runs) ==
    IF runs = <<>>
      THEN [count |-> 0, errors |-> 0, total_ms |-> 0, avg_ms |-> 0,
            p50_ms |-> 0, p95_ms |-> 0, max_ms |-> 0]
      ELSE LET durs == [i \in 1..Len(runs) |-> DurOf(runs[i])]
               durs_sorted == Sorted(durs)
               n == Len(durs_sorted)
           IN  [count |-> n,
                errors |-> SumSeq([i \in 1..Len(runs) |-> IF OkOf(runs[i]) THEN 0 ELSE 1]),
                total_ms |-> SumSeq(durs),
                avg_ms |-> IntDiv(SumSeq(durs), n),
                p50_ms |-> durs_sorted[PctIndex(P50, n) + 1],
                p95_ms |-> durs_sorted[PctIndex(P95, n) + 1],
                max_ms |-> durs_sorted[n]]

\* Records given to _summarize_runs: with and without duration_ms and ok.
SumRecs ==
    {[duration_ms |-> d, ok |-> o] : d \in {10, 20, 35}, o \in BOOLEAN}
    \cup {[ok |-> FALSE], [duration_ms |-> 20], EmptyDict}

InitSum ==
    /\ NodeInit
    /\ MergeIdle
    /\ ExtIdle
    /\ sIn \in SeqUpTo(SumRecs, MaxRecs)
    /\ sOut = <<>>

\* The call of _summarize_runs on the list given.
Summarize ==
    /\ sOut = <<>>
    /\ sOut' = _summarize_runs(sIn)
    /\ UNCHANGED <<sIn, nodeVars, mergeVars, extVars>>

NextSum == Summarize

SpecSum == InitSum /\ [][NextSum]_vars

---------------------------------------------------------------------------
(* Claims about _summarize_runs *)

Summarized == sOut # <<>>

\* The durations of the list given, a missing one read as 0.
DursIn == [i \in 1..Len(sIn) |-> DurOf(sIn[i])]

\* The sum of the first n durations.
RECURSIVE TotalOf(_)
TotalOf(n) == IF n = 0 THEN 0 ELSE TotalOf(n - 1) + DursIn[n]

\* v stands at place k (from 0) of the durations in ascending order.
AtSortedIndex(v, k) ==
    /\ \E i \in 1..Len(sIn) : DursIn[i] = v
    /\ Cardinality({i \in 1..Len(sIn) : DursIn[i] < v}) <= k
    /\ k < Cardinality({i \in 1..Len(sIn) : DursIn[i] <= v})

\* clamp(ceil(p * n) - 1, 0, n - 1), p in percent, ceil taken as the least
\* integer not below.
RankIndex(pct, n) ==
    LET c == CHOOSE x \in 0..n : 100 * x >= pct * n /\ 100 * (x - 1) < pct * n
    IN  IF c - 1 < 0 THEN 0 ELSE IF c - 1 > n - 1 THEN n - 1 ELSE c - 1

\* C10: for a non-empty list of n records, count = n, errors = the number of
\* records with ok = false, total_ms = the sum of the durations, avg_ms = the
\* total divided by n cut to an integer, max_ms = the largest duration, and
\* p50_ms, p95_ms = the element at index clamp(ceil(p*n) - 1, 0, n-1) of the
\* durations in ascending order (a missing duration_ms read as 0, a missing ok as
\* true); for the empty list every field is 0.
C10_Summary ==
    Summarized =>
        LET n == Len(sIn)
        IN  /\ DOMAIN sOut = {"count", "errors", "total_ms", "avg_ms",
                              "p50_ms", "p95_ms", "max_ms"}
            /\ n = 0 => \A k \in DOMAIN sOut : sOut[k] = 0
            /\ n > 0 =>
                   /\ sOut.count = n
                   /\ sOut.errors = Cardinality({i \in 1..n : "ok" \in DOMAIN sIn[i]
                                                              /\ sIn[i]["ok"] = FALSE})
                   /\ sOut.total_ms = TotalOf(n)
                   /\ sOut.avg_ms * n <= TotalOf(n)
                   /\ TotalOf(n) < (sOut.avg_ms + 1) * n
                   /\ \E i \in 1..n : DursIn[i] = sOut.max_ms
                   /\ \A i \in 1..n : DursIn[i] <= sOut.max_ms
                   /\ AtSortedIndex(sOut.p50_ms, RankIndex(P50, n))
                   /\ AtSortedIndex(sOut.p95_ms, RankIndex(P95, n))

\* Three records, one without duration_ms, one failed; the mean is cut and the
\* two percentiles differ.
C10_Witness ==
    /\ Summarized
    /\ Len(sIn) = 3
    /\ \E i \in 1..3 : "duration_ms" \notin DOMAIN sIn[i]
    /\ sOut.errors = 1
    /\ sOut.avg_ms * 3 < sOut.total_ms
    /\ sOut.p50_ms < sOut.p95_ms

\* The two records of the example: 10 ms and ok, 20 ms and failed.
SumExample == <<[duration_ms |-> 10, ok |-> TRUE], [duration_ms |-> 20, ok |-> FALSE]>>

\* C11 as stated: for the two records {duration_ms: 10, ok: true} and
\* {duration_ms: 20, ok: false} the stats are count = 2, errors = 1,
\* total_ms = 30, avg_ms = 15, max_ms = 20 and p50_ms = p95_ms = 20.
C11_BothPercentilesTwenty ==
    (Summarized /\ sIn = SumExample) =>
        sOut = [count |-> 2, errors |-> 1, total_ms |-> 30, avg_ms |-> 15,
                max_ms |-> 20, p50_ms |-> 20, p95_ms |-> 20]

\* C11 as amended: for those two records the stats are count = 2, errors = 1,
\* total_ms = 30, avg_ms = 15, max_ms = 20, p95_ms = 20 and p50_ms = 10 (the
\* index of the median is ceil(0.5 * 2) - 1 = 0).
C11_ExampleStats ==
    (Summarized /\ sIn = SumExample) =>
        sOut = [count |-> 2, errors |-> 1, total_ms |-> 30, avg_ms |-> 15,
                max_ms |-> 20, p50_ms |-> 10, p95_ms |-> 20]

\* The example was summarized and its two percentiles differ.
C11_Witness ==
    /\ Summarized
    /\ sIn = SumExample
    /\ sOut.count = 2
    /\ sOut.p50_ms < sOut.p95_ms

---------------------------------------------------------------------------
(* BaseAgent.print_metrics: the slowest runs across all agents *)

\* r.get(k, ""), for the keys run_id and started_at (strings here).
GetOrEmpty(r, k) == IF k \in DOMAIN r THEN r[k] ELSE Some("")

\* The dict appended to all_runs for record r of agent a.
RunRow(a, r) ==
    [agent |-> a,
     duration_ms |-> DurOf(r),
     ok |-> OkOf(r),
     run_id |-> GetOrEmpty(r, "run_id"),
     started_at |-> GetOrEmpty(r, "started_at")]

\* The two loops over metrics.items(): a dict in the order of its keys is a
\* sequence of [agent, runs] pairs.
RECURSIVE all_runs(_)
all_runs(metrics) ==
    IF metrics = <<>>
      THEN <<>>
      ELSE LET e == Head(metrics)
           IN  [i \in 1..Len(e.runs) |-> RunRow(e.agent, e.runs[i])]
               \o all_runs(Tail(metrics))

\* A row put before the rows as slow as it.
InsertDesc_before_equal(s, x) ==
    LET before == {i \in 1..Len(s) : s[i].duration_ms > x.duration_ms}
    IN  SubSeq(s, 1, Cardinality(before)) \o <<x>>
        \o SubSeq(s, Cardinality(before) + 1, Len(s))

\* One row put into rows in descending order: after every row at least as slow.
InsertDesc(s, x) ==
    LET before == {i \in 1..Len(s) : s[i].duration_ms >= x.duration_ms}
    IN  SubSeq(s, 1, Cardinality(before)) \o <<x>>
        \o SubSeq(s, Cardinality(before) + 1, Len(s))

\* all_runs.sort(key=lambda x: x["duration_ms"], reverse=True): a stable sort.
RECURSIVE SortDesc(_)
SortDesc(s) ==
    IF s = <<>> THEN <<>>
    ELSE InsertDesc(SortDesc(SubSeq(s, 1, Len(s) - 1)), s[Len(s)])

\* s[:k]
SliceTo(s, k) ==
    IF k >= 0 THEN SubSeq(s, 1, Min2(k, Len(s)))
    ELSE SubSeq(s, 1, Max2(0, Len(s) + k))

\* top = all_runs[:top_k_slowest] if top_k_slowest and all_runs else []
TopSlowest(metrics, top_k_slowest) ==
    LET sorted == SortDesc(all_runs(metrics))
    IN  IF top_k_slowest # 0 /\ sorted # <<>>
          THEN SliceTo(sorted, top_k_slowest)
          ELSE <<>>

\* Records of the ledger given: two of 20 ms, one without duration_ms and ok.
TopRecs ==
    {[duration_ms |-> 5, ok |-> TRUE, run_id |-> Some("r1")],
     [duration_ms |-> 20, ok |-> TRUE, run_id |-> Some("r2"), started_at |-> Some("t0")],
     [duration_ms |-> 20, ok |-> FALSE, run_id |-> Some("r3")],
     [duration_ms |-> 50, ok |-> TRUE, run_id |-> Some("r4")],
     [run_id |-> Some("r5")]}

\* The orders in which a ledger holds its agents.
AgentOrders == {<<>>, <<"A">>, <<"A", "B">>, <<"B", "A">>}

TopLedgers ==
    UNION {{[i \in 1..Len(o) |-> [agent |-> o[i], runs |-> l[i]]] :
                l \in [1..Len(o) -> SeqUpTo(TopRecs, MaxTop)]} : o \in AgentOrders}

InitTop ==
    /\ NodeInit
    /\ MergeIdle
    /\ SumIdle
    /\ ProxyIdle /\ ToolIdle /\ SessionIdle /\ NormIdle
    /\ tIn \in [metrics : TopLedgers, k : -1..MaxK]
    /\ tOut = <<>>

\* print_metrics, up to the list top.
PrintMetrics ==
    /\ tOut = <<>>
    /\ tOut' = Some(TopSlowest(tIn.metrics, tIn.k))
    /\ UNCHANGED <<tIn, restTop>>

NextTop == PrintMetrics

SpecTop == InitTop /\ [][NextTop]_vars

---------------------------------------------------------------------------
(* Claims about the slowest runs *)

TopDone == tOut # <<>>

\* The rows of every agent's records, agent after agent, in the ledger's order.
TopRows == all_runs(tIn.metrics)

\* The place of row j among all rows by duration descending, rows of equal
\* duration in their input order.
PlaceOf(rows, j) ==
    1 + Cardinality({i \in 1..Len(rows) : rows[i].duration_ms > rows[j].duration_ms})
      + Cardinality({i \in 1..(j - 1) : rows[i].duration_ms = rows[j].duration_ms})

\* C12: for k >= 0 the slowest-runs list of print_metrics holds min(k, n) rows
\* of the n records of all agents of the ledger: at place p the row that is p-th
\* by duration_ms descending, rows of equal duration kept in their input order.
C12_TopKSlowest ==
    (TopDone /\ tIn.k >= 0) =>
        LET rows == TopRows
            n == Len(rows)
            top == tOut[1]
        IN  /\ n = SumSeq([i \in 1..Len(tIn.metrics) |-> Len(tIn.metrics[i].runs)])
            /\ Len(top) = Min2(tIn.k, n)
            /\ \A p \in 1..Len(top) :
                   \E j \in 1..n : PlaceOf(rows, j) = p /\ top[p] = rows[j]

\* Durations [5, 50, 20] over two agents with k = 2 give the rows of 50 and 20.
C12_Witness ==
    /\ TopDone
    /\ tIn.k = 2
    /\ [i \in 1..Len(TopRows) |-> TopRows[i].duration_ms] = <<5, 50, 20>>
    /\ Len(tIn.metrics) = 2
    /\ [i \in 1..Len(tOut[1]) |-> tOut[1][i].duration_ms] = <<50, 20>>

---------------------------------------------------------------------------
(* _ActionProxy.invoke *)

\* In what the wrapped invoke returns, the value under the ledger key and the
\* values of that dict may be of any type: they are tagged like update values.
PyNone == [t |-> "none"]

\* The bucket replaced by the record alone.
AttachRecord_replace(d, tid, rec) ==
    IF _METRICS_KEY \in DOMAIN d /\ ~IsDict(d[_METRICS_KEY])
      THEN [d |-> d, raised |-> TRUE]
    ELSE IF _METRICS_KEY \in DOMAIN d /\ tid \in DOMAIN d[_METRICS_KEY].v
                                     /\ ~IsList(d[_METRICS_KEY].v[tid])
      THEN [d |-> d, raised |-> TRUE]
    ELSE [d |-> DictSet(d, _METRICS_KEY,
                        PyDict(DictSet(IF _METRICS_KEY \in DOMAIN d
                                         THEN d[_METRICS_KEY].v ELSE EmptyDict,
                                       tid, PyList(<<rec>>)))),
          raised |-> FALSE]

\* res.setdefault("__metrics__", {}).setdefault(parent.thread_id, []).append(rec)
\* on the dict d: the dict afterwards, and whether an AttributeError was raised
\* (the value under the ledger key has no setdefault, the bucket no append).
AttachRecord(d, tid, rec) ==
    IF _METRICS_KEY \notin DOMAIN d
      THEN [d |-> DictSet(d, _METRICS_KEY, PyDict(DictSet(EmptyDict, tid, PyList(<<rec>>)))),
            raised |-> FALSE]
    ELSE IF ~IsDict(d[_METRICS_KEY])
      THEN [d |-> d, raised |-> TRUE]
    ELSE LET m == d[_METRICS_KEY].v
         IN  IF tid \notin DOMAIN m
               THEN [d |-> DictSet(d, _METRICS_KEY, PyDict(DictSet(m, tid, PyList(<<rec>>)))),
                     raised |-> FALSE]
             ELSE IF ~IsList(m[tid])
               THEN [d |-> d, raised |-> TRUE]
             ELSE [d |-> DictSet(d, _METRICS_KEY,
                                 PyDict(DictSet(m, tid, PyList(Append(m[tid].v, rec))))),
                   raised |-> FALSE]

\* The dict appended to the bucket.
ProxyRecord(tid, id, ok, wall, ticks) ==
    [agent |-> tid, run_id |-> Some(id), ok |-> ok, started_at |-> Some(wall),
     duration_ms |-> IntMs(ticks), node |-> "run"]

\* What the wrapped invoke returns: dicts, with a ledger field and a bucket for
\* the owner of every shape, and what is no dict. obj tells the objects apart.
ProxyDicts ==
    {EmptyDict,
     [x |-> PyInt(1)],
     [x |-> PyInt(1), __metrics__ |-> PyDict(EmptyDict)],
     [__metrics__ |-> PyDict([A |-> PyList(<<Old1>>)])],
     [__metrics__ |-> PyDict([B |-> PyList(<<Old1, Old2>>)])],
     [__metrics__ |-> PyList(<<>>)],
     [x |-> PyInt(1), __metrics__ |-> PyNone],
     [__metrics__ |-> PyDict([A |-> PyNone])],
     [__metrics__ |-> PyDict([A |-> PyInt(3), B |-> PyList(<<>>)])]}

ProxyResults ==
    {[kind |-> "dict", obj |-> "res", d |-> d] : d \in ProxyDicts}
    \cup {[kind |-> "other", obj |-> "res", v |-> "text"],
          [kind |-> "other", obj |-> "None", v |-> "none"]}

\* A copy handed back in place of the object.
SameObject_copy(res) == [res EXCEPT !.obj = "copy"]

\* return res: the object the wrapped invoke returned.
SameObject(res) == res

\* invoke, up to the call of self._inner.invoke.
ProxyInvoke ==
    /\ proxy.pc = "idle"
    /\ proxy.calls < MaxCalls
    /\ proxy' = [proxy EXCEPT !.pc = "running", !.calls = @ + 1,
                              !.t0 = Some(now), !.wall = Some(IsoNow(now)), !.t1 = None,
                              !.ok = TRUE, !.inner = None, !.res = None, !.out = None,
                              !.exc = None, !.swallowed = FALSE]
    /\ UNCHANGED <<nodeVars, restProxy>>

\* self._inner.invoke returns v: the finally clause attaches the record to a
\* dict, any Exception of that swallowed, and v is returned.
InnerReturns(v) ==
    /\ proxy.pc = "running"
    /\ LET isDict == v.kind = "dict"
           rec == ProxyRecord(agent.thread_id, nextId, proxy.ok, proxy.wall[1],
                              now - proxy.t0[1])
           att == AttachRecord(v.d, agent.thread_id, rec)
       IN  /\ proxy' = [proxy EXCEPT
                           !.pc = "returned",
                           !.t1 = IF isDict THEN Some(now) ELSE None,
                           !.inner = Some([kind |-> "return", v |-> v]),
                           !.res = Some(v),
                           !.out = Some(IF isDict /\ ~att.raised
                                          THEN [SameObject(v) EXCEPT !.d = att.d]
                                          ELSE SameObject(v)),
                           !.swallowed = isDict /\ att.raised]
           /\ nextId' = IF isDict /\ ~att.raised THEN nextId + 1 ELSE nextId
    /\ UNCHANGED <<now, agent, pc, step, ret, out, exc, built, mine, restProxy>>

\* self._inner.invoke raises e: ok = False for an Exception; res is None still,
\* so the finally clause attaches nothing, and e goes on.
InnerRaises(e) ==
    /\ proxy.pc = "running"
    /\ proxy' = [proxy EXCEPT !.pc = "raised",
                              !.inner = Some([kind |-> "raise", e |-> e]),
                              !.ok = IF e.is_exception THEN FALSE ELSE @,
                              !.exc = Some(Reraise(e))]
    /\ UNCHANGED <<nodeVars, restProxy>>

\* The caller has taken the outcome.
ProxyCollect ==
    /\ proxy.pc \in {"returned", "raised"}
    /\ proxy' = [proxy EXCEPT !.pc = "idle", !.t0 = None, !.wall = None, !.t1 = None,
                              !.ok = TRUE,
                              !.inner = None, !.res = None, !.out = None, !.exc = None,
                              !.swallowed = FALSE]
    /\ UNCHANGED <<nodeVars, restProxy>>

InitProxy == NodeInit /\ MergeIdle /\ SumIdle /\ ExtIdle

NextProxy ==
    \/ Tick
    \/ ProxyInvoke
    \/ \E v \in ProxyResults : InnerReturns(v)
    \/ \E e \in Raised : InnerRaises(e)
    \/ ProxyCollect

SpecProxy == InitProxy /\ [][NextProxy]_vars

---------------------------------------------------------------------------
(* Claims about the action proxy *)

ProxyReturned == proxy.pc = "returned"
ProxyRaised == proxy.pc = "raised"

\* The ledger field of d, where present, is a dict, and in it the bucket of tid,
\* where present, is a list.
LedgerShaped(d, tid) ==
    _METRICS_KEY \in DOMAIN d =>
        /\ IsDict(d[_METRICS_KEY])
        /\ tid \in DOMAIN d[_METRICS_KEY].v => IsList(d[_METRICS_KEY].v[tid])

\* d holds a list for tid under the ledger key.
HasBucket(d, tid) ==
    /\ _METRICS_KEY \in DOMAIN d
    /\ IsDict(d[_METRICS_KEY])
    /\ tid \in DOMAIN d[_METRICS_KEY].v
    /\ IsList(d[_METRICS_KEY].v[tid])

\* The records of that list; none where there is no such list.
BucketOf(d, tid) == IF HasBucket(d, tid) THEN d[_METRICS_KEY].v[tid].v ELSE <<>>

\* after is before with one record more at its end: that of this call of invoke.
OneProxyRecordMore(before, after) ==
    /\ HasBucket(after, agent.thread_id)
    /\ LET b == BucketOf(before, agent.thread_id)
           a == BucketOf(after, agent.thread_id)
       IN  /\ Len(a) = Len(b) + 1
           /\ SubSeq(a, 1, Len(b)) = b
           /\ a[Len(a)].agent = agent.thread_id
           /\ a[Len(a)].run_id = Some(nextId - 1)
           /\ \A i \in 1..Len(b) : b[i].run_id # a[Len(a)].run_id
           /\ a[Len(a)].ok = proxy.ok
           /\ proxy.ok = TRUE
           /\ a[Len(a)].started_at = proxy.wall
           /\ a[Len(a)].duration_ms = IntMs(proxy.t1[1] - proxy.t0[1])
           /\ a[Len(a)].duration_ms >= 0
           /\ a[Len(a)].node = "run"

\* C13 as stated: on every invoke through the proxy, if the result is a dict,
\* exactly one record (agent = the owner's thread_id, a fresh run_id, started_at,
\* duration_ms, node = "run", ok = the outcome) is appended to the owner's bucket
\* of its ledger; if it is no dict, or the call raises, nothing is recorded.
C13_OneRecordOnEveryDict ==
    /\ (ProxyReturned /\ proxy.res[1].kind = "dict") =>
           OneProxyRecordMore(proxy.res[1].d, proxy.out[1].d)
    /\ (ProxyReturned /\ proxy.res[1].kind # "dict") => proxy.out = proxy.res
    /\ ProxyRaised => proxy.out = None

\* C13 as amended: if the wrapped call returns a dict whose ledger field, where
\* present, is a dict and whose bucket for the owner, where present, is a list,
\* exactly one record (agent = the owner's thread_id, a fresh run_id, started_at,
\* duration_ms, node = "run", ok = true) is appended to that bucket, every other
\* key and bucket staying as it was; a dict whose ledger field or bucket has
\* another shape is left as it was; if the result is no dict, or the call raises
\* (there is no result then, and no record with ok = false), nothing is recorded.
C13_OneRecordOnShapedDict ==
    /\ (ProxyReturned /\ proxy.res[1].kind = "dict") =>
           LET before == proxy.res[1].d
               after == proxy.out[1].d
           IN  IF LedgerShaped(before, agent.thread_id)
                 THEN /\ OneProxyRecordMore(before, after)
                      /\ DOMAIN after = DOMAIN before \cup {_METRICS_KEY}
                      /\ \A k \in DOMAIN before \ {_METRICS_KEY} : after[k] = before[k]
                      /\ _METRICS_KEY \in DOMAIN before =>
                             \A a \in DOMAIN before[_METRICS_KEY].v \ {agent.thread_id} :
                                 after[_METRICS_KEY].v[a] = before[_METRICS_KEY].v[a]
                 ELSE after = before
    /\ (ProxyReturned /\ proxy.res[1].kind # "dict") => proxy.out = proxy.res
    /\ ProxyRaised => proxy.out = None /\ proxy.res = None

\* A dict that held a record of the owner came back with one more, taken after
\* a millisecond or more.
C13_Witness ==
    /\ ProxyReturned
    /\ proxy.res[1].kind = "dict"
    /\ Len(BucketOf(proxy.res[1].d, agent.thread_id)) = 1
    /\ Len(BucketOf(proxy.out[1].d, agent.thread_id)) = 2
    /\ BucketOf(proxy.out[1].d, agent.thread_id)[2].duration_ms > 0

\* C14: the proxy never changes the outcome of the wrapped call: invoke returns
\* the object the wrapped invoke returned (a dict with its keys other than the
\* ledger key as they were, anything else as it was), or lets the exception it
\* raised go on, and an error raised while the record is attached is swallowed:
\* the call still returns that object, unchanged.
C14_OutcomeUnchanged ==
    /\ ProxyReturned =>
           LET v == proxy.inner[1].v
               o == proxy.out[1]
           IN  /\ proxy.inner[1].kind = "return"
               /\ proxy.exc = None
               /\ o.obj = v.obj
               /\ o.kind = v.kind
               /\ v.kind = "dict" =>
                      \A k \in DOMAIN v.d \ {_METRICS_KEY} : k \in DOMAIN o.d /\ o.d[k] = v.d[k]
               /\ v.kind # "dict" => o = v
               /\ proxy.swallowed => o = v
    /\ ProxyRaised =>
           /\ proxy.inner[1].kind = "raise"
           /\ proxy.exc = Some(proxy.inner[1].e)
           /\ proxy.out = None
    /\ proxy.swallowed => ProxyReturned

\* The owner's bucket was no list: the error of attaching was swallowed and the
\* dict came back as it was.
C14_Witness ==
    /\ ProxyReturned
    /\ proxy.swallowed
    /\ proxy.res[1].kind = "dict"
    /\ _METRICS_KEY \in DOMAIN proxy.res[1].d
    /\ IsDict(proxy.res[1].d[_METRICS_KEY])
    /\ proxy.out = proxy.res

---------------------------------------------------------------------------
(* A claim about lists of Commands returned to timed_node (Spec) *)

\* The step of f returned a list with two or more Commands.
SeveralCommands(f) ==
    ReturnedKind(f, "list") /\ Cardinality(CommandsIn(ret[f][1].items)) >= 2

\* The updates of the Commands of a list, in the order of the list.
UpdatesIn(items) ==
    LET cmds == SelectSeq(items, IsCommand)
    IN  [i \in 1..Len(cmds) |-> UpdateOf(cmds[i])]

\* The earlier value a and the later value b of a key, combined: two lists
\* concatenated, two dicts merged with b's entries overriding, else b.
Combined(a, b) ==
    IF a.t = "list" /\ b.t = "list" THEN [t |-> "list", v |-> a.v \o b.v]
    ELSE IF a.t = "dict" /\ b.t = "dict"
      THEN [t |-> "dict",
            v |-> [x \in DOMAIN a.v \cup DOMAIN b.v |->
                      IF x \in DOMAIN b.v THEN b.v[x] ELSE a.v[x]]]
    ELSE b

\* The values of key k in the updates ups, combined from left to right.
RECURSIVE CombinedFor(_, _)
CombinedFor(k, ups) ==
    LET last == ups[Len(ups)]
        before == SubSeq(ups, 1, Len(ups) - 1)
    IN  IF k \notin DOMAIN last THEN CombinedFor(k, before)
        ELSE IF \A i \in 1..Len(before) : k \notin DOMAIN before[i] THEN last[k]
        ELSE Combined(CombinedFor(k, before), last[k])

---------------------------------------------------------------------------
(* Calls of wrapped steps that overlap on one BaseAgent instance *)

\* What the steps of these calls return: one value of each kind.
SomeReturns ==
    {[kind |-> "dict", d |-> DictSet([x |-> PyInt(1)], _METRICS_KEY, [A |-> <<Old1>>])],
     LGCommand([update |-> [x |-> PyInt(1)], goto |-> "n2"]),
     [kind |-> "list", items |-> <<Obj("m1")>>],
     [kind |-> "other", v |-> "text"]}

SomeRaised ==
    {[type |-> "ValueError", text |-> Text(3), is_exception |-> TRUE],
     [type |-> "CancelledError", text |-> Text(0), is_exception |-> FALSE]}

\* A step is called (awaited, or run on another thread) while another call on
\* the instance is open.
NextOverlap ==
    \/ Tick
    \/ \E f \in Frames, fn \in Steps : Invoke(f, fn)
    \/ \E f \in Frames, r \in SomeReturns : StepReturns(f, r)
    \/ \E f \in Frames, e \in SomeRaised : StepRaises(f, e)
    \/ \E f \in Frames : Collect(f)

SpecOverlap == Init /\ [][NextOverlap]_vars

\* The wrapper of f was left by what is no Exception: it never reached finish.
Cancelled(f) == pc[f] = "raised" /\ ~ret[f][1].e.is_exception

\* No call is open: each caller is idle, or its step was cancelled or abandoned.
NoneOpen == \A g \in Frames : pc[g] = "idle" \/ Cancelled(g)

\* Steps run one after another; the caller of a cancelled step may hold on to it.
NextCancel ==
    \/ Tick
    \/ \E f \in Frames, fn \in Steps : NoneOpen /\ Invoke(f, fn)
    \/ \E f \in Frames, r \in SomeReturns : StepReturns(f, r)
    \/ \E f \in Frames, e \in SomeRaised : StepRaises(f, e)
    \/ \E f \in Frames : Collect(f)

SpecCancel == Init /\ [][NextCancel]_vars

---------------------------------------------------------------------------
(* Claims about overlapping and cancelled calls *)

Running == {f \in Frames : pc[f] = "running"}

\* The caller, among those of S, whose call started last.
LatestOf(S) == CHOOSE f \in S : \A g \in S : mine[g][1].run_id <= mine[f][1].run_id

\* The wrapper of f has finished the timer and returned or re-raised.
Finished(f) == pc[f] = "returned" \/ Reraised(f)

\* C15: a start overwrites the single timer slot: when two calls overlap on one
\* instance (start A, start B, finish, finish), the first finish builds a record
\* with the run_id and started_at of B, the call started last, timed from B's
\* start, and not A's run_id; a finish that finds the timer idle (the second)
\* builds a record with duration_ms = 0 and run_id and started_at None; after
\* either the timer is idle.
C15_OverlapOverwrites ==
    [][\A f \in Frames : Ends(f) =>
          LET rec == built'[f][1]
          IN  /\ Len(built'[f]) = 1
              /\ TimerIdle(agent')
              /\ Running = Frames =>
                     LET b == LatestOf(Running)
                     IN  /\ TimerPopulated(agent)
                         /\ rec.run_id = Some(mine[b][1].run_id)
                         /\ rec.started_at = Some(mine[b][1].wall)
                         /\ rec.duration_ms = IntMs(now - mine[b][1].clock)
                         /\ \A a \in Running \ {b} : rec.run_id # Some(mine[a][1].run_id)
              /\ TimerIdle(agent) =>
                     /\ rec.run_id = None
                     /\ rec.started_at = None
                     /\ rec.duration_ms = 0]_vars

\* Start A, start B, finish of A, finish of B a millisecond or more after B's
\* start: A's record has B's run_id and B's has none and 0 ms.
C15_Witness ==
    \E f \in Frames, g \in Frames :
        /\ Finished(f) /\ Finished(g)
        /\ mine[f][1].run_id < mine[g][1].run_id
        /\ built[f][1].run_id = Some(mine[g][1].run_id)
        /\ built[g][1].run_id = None
        /\ built[g][1].started_at = None
        /\ built[g][1].duration_ms = 0
        /\ now - mine[g][1].clock >= TicksPerMs

\* C16: if a wrapped step is cancelled or abandoned, so that the wrapper never
\* reaches finish, no record is built for that run, then or later, and the timer
\* stays populated with that run's context until the next start (no run_id
\* has been drawn since); the next call
\* on the instance overwrites the context: its record carries its own run_id and
\* started_at and the duration from its own start, and the timer is idle after it.
C16_CancelledRunIsLost ==
    /\ [](\A f \in Frames : Cancelled(f) =>
              /\ built[f] = <<>>
              /\ out[f] = None
              /\ nextId = mine[f][1].run_id + 1 =>
                     /\ TimerPopulated(agent)
                     /\ agent._run_id = Some(mine[f][1].run_id)
              /\ \A g \in Frames : \A i \in 1..Len(built[g]) :
                     built[g][i].run_id # Some(mine[f][1].run_id))
    /\ [][\A g \in Frames :
              /\ (pc[g] = "idle" /\ pc'[g] = "running") =>
                     /\ agent'._run_id = Some(mine'[g][1].run_id)
                     /\ agent'._run_start = Some(mine'[g][1].clock)
                     /\ agent'._run_wall_start = Some(mine'[g][1].wall)
              /\ Ends(g) =>
                     /\ Len(built'[g]) = 1
                     /\ built'[g][1].run_id = Some(mine[g][1].run_id)
                     /\ built'[g][1].started_at = Some(mine[g][1].wall)
                     /\ built'[g][1].duration_ms = IntMs(now - mine[g][1].clock)
                     /\ TimerIdle(agent')]_vars

\* A step was cancelled; the next call, started later on the clock, has built a
\* record with its own run_id and started_at, and the timer is idle.
C16_Witness ==
    \E f \in Frames, g \in Frames :
        /\ Cancelled(f)
        /\ Finished(g)
        /\ mine[g][1].run_id > mine[f][1].run_id
        /\ mine[g][1].clock > mine[f][1].clock
        /\ built[g][1].run_id = Some(mine[g][1].run_id)
        /\ built[g][1].started_at = Some(mine[g][1].wall)
        /\ TimerIdle(agent)

---------------------------------------------------------------------------
(* timed_tool and TOOL_TIMES *)

Threads == {"t1", "t2"}

\* The names given to timed_tool.
ToolNames == {"search", "fetch"}

\* What a wrapped callable returns.
ToolValues == {"text", "none"}

\* What a wrapped callable raises: an Exception, and what is none.
ToolRaised ==
    {[type |-> "ValueError", text |-> Text(3), is_exception |-> TRUE],
     [type |-> "KeyboardInterrupt", text |-> Text(0), is_exception |-> FALSE]}

\* (time.perf_counter() - t0) * 1000.0, a float: the milliseconds as a fraction.
FloatMs(ticks) == [num |-> ticks, den |-> TicksPerMs]

\* The tuple appended to TOOL_TIMES.
ToolEntry(name, ticks, ok) == [name |-> name, ms |-> FloatMs(ticks), ok |-> ok]

InitTool ==
    /\ NodeInit /\ MergeIdle /\ SumIdle /\ TopIdle /\ ProxyIdle /\ SessionIdle /\ NormIdle
    /\ TOOL_TIMES = <<>>
    /\ tool = [stack |-> [t \in Threads |-> <<>>],
               started |-> 0,
               done |-> 0,
               last |-> [t \in Threads |-> None]]

\* The call on thread t that was opened last.
TopCall(t) == tool.stack[t][Len(tool.stack[t])]

\* The stack of thread t without that call.
Popped(t) == SubSeq(tool.stack[t], 1, Len(tool.stack[t]) - 1)

\* wrapper, up to the call of fn; a call made inside fn by the thread is nested.
ToolCall(t, name) ==
    /\ tool.started < MaxToolCalls
    /\ Len(tool.stack[t]) < MaxDepth
    /\ tool' = [tool EXCEPT !.stack[t] = Append(@, [name |-> name, t0 |-> now, ok |-> TRUE]),
                            !.started = @ + 1]
    /\ UNCHANGED <<TOOL_TIMES, nodeVars, restTool>>

\* fn returns v: the finally clause appends, and v is returned.
ToolReturns(t, v) ==
    /\ tool.stack[t] # <<>>
    /\ LET c == TopCall(t)
           entry == ToolEntry(c.name, now - c.t0, c.ok)
       IN  /\ TOOL_TIMES' = Append(TOOL_TIMES, entry)
           /\ tool' = [tool EXCEPT !.stack[t] = Popped(t),
                                   !.done = @ + 1,
                                   !.last[t] = Some([call |-> c,
                                                     inner |-> [kind |-> "return", v |-> v],
                                                     outer |-> [kind |-> "return", v |-> v],
                                                     entry |-> entry])]
    /\ UNCHANGED <<nodeVars, restTool>>

\* fn raises e: ok = False for an Exception; the finally clause appends, and e
\* goes on.
ToolRaises(t, e) ==
    /\ tool.stack[t] # <<>>
    /\ LET c == TopCall(t)
           ok == IF e.is_exception THEN FALSE ELSE c.ok
           entry == ToolEntry(c.name, now - c.t0, ok)
       IN  /\ TOOL_TIMES' = Append(TOOL_TIMES, entry)
           /\ tool' = [tool EXCEPT !.stack[t] = Popped(t),
                                   !.done = @ + 1,
                                   !.last[t] = Some([call |-> c,
                                                     inner |-> [kind |-> "raise", e |-> e],
                                                     outer |-> [kind |-> "raise", e |-> Reraise(e)],
                                                     entry |-> entry])]
    /\ UNCHANGED <<nodeVars, restTool>>

NextTool ==
    \/ Tick
    \/ \E t \in Threads, name \in ToolNames : ToolCall(t, name)
    \/ \E t \in Threads, v \in ToolValues : ToolReturns(t, v)
    \/ \E t \in Threads, e \in ToolRaised : ToolRaises(t, e)

SpecTool == InitTool /\ [][NextTool]_vars

---------------------------------------------------------------------------
(* Claims about timed_tool *)

\* A call on thread t ends in this step.
Completes(t) == Len(tool'.stack[t]) < Len(tool.stack[t])

\* C17 as stated: after any interleaving of calls of wrapped callables (one after
\* another, nested, on several threads) TOOL_TIMES holds one (name, ms, ok) entry
\* per completed call, appended when the call completes, with ok = true iff the
\* callable returned without raising; entries in the log are never changed,
\* removed or reordered, and the callable's value or exception passes unchanged.
C17_ToolLog ==
    /\ [](Len(TOOL_TIMES) = tool.done)
    /\ [][/\ SubSeq(TOOL_TIMES', 1, Len(TOOL_TIMES)) = TOOL_TIMES
          /\ \A t \in Threads : Completes(t) =>
                 LET l == tool'.last[t][1]
                 IN  /\ TOOL_TIMES' = Append(TOOL_TIMES, l.entry)
                     /\ l.entry.name = l.call.name
                     /\ l.entry.ms = FloatMs(now - l.call.t0)
                     /\ l.entry.ok = (l.inner.kind = "return")
                     /\ l.outer = l.inner
          /\ (\A t \in Threads : ~Completes(t)) => TOOL_TIMES' = TOOL_TIMES]_vars

\* A nested call raised what is no Exception while a call was open on the other
\* thread, and its entry says ok = true.
C17_Witness ==
    \E t \in Threads : \E u \in Threads \ {t} :
        /\ tool.last[t] # None
        /\ tool.last[t][1].inner.kind = "raise"
        /\ tool.last[t][1].entry.ok = TRUE
        /\ TOOL_TIMES[Len(TOOL_TIMES)] = tool.last[t][1].entry
        /\ Len(tool.stack[t]) = 1
        /\ tool.stack[u] # <<>>

---------------------------------------------------------------------------
(* A session: steps of several instances, their results merged into one ledger *)

\* The BaseAgent instances of the session; thread_id is the name of the class,
\* so two instances of one class have the same.
Instances == {"i1", "i2", "i3"}

ClassOf(i) == IF i = "i3" THEN "B" ELSE "A"

\* The instance i after __init__.
NewInstance(i) == [NewAgent EXCEPT !.thread_id = ClassOf(i)]

\* result.get("__metrics__") of what the wrapper returned; None where the result
\* has no such key or is no dict and no Command.
LedgerOfResult(res) ==
    IF res.kind = "dict"
      THEN (IF _METRICS_KEY \in DOMAIN res.d THEN res.d[_METRICS_KEY] ELSE None)
    ELSE IF res.kind = "Command"
      THEN (IF _METRICS_KEY \in DOMAIN UpdateOf(res) THEN UpdateOf(res)[_METRICS_KEY]
            ELSE None)
    ELSE None

\* agent is the instance named session.cur, the one whose step is called next.
InitSession ==
    /\ NodeInit /\ MergeIdle /\ SumIdle /\ TopIdle /\ ProxyIdle /\ ToolIdle /\ NormIdle
    /\ session = [ledger |-> EmptyDict,
                  results |-> <<>>,
                  runs |-> <<>>,
                  remerged |-> FALSE,
                  cur |-> "i1",
                  parked |-> [i \in Instances |-> NewInstance(i)]]

\* The next step is one of instance i.
Switch(i) ==
    /\ AllIdle
    /\ i # session.cur
    /\ agent' = session.parked[i]
    /\ session' = [session EXCEPT !.parked[session.cur] = agent, !.cur = i]
    /\ UNCHANGED <<now, nextId, pc, step, ret, out, exc, built, mine, restSession>>

\* The host takes what left the wrapper: the ledger of a result is merged into
\* the session ledger; runs keeps, in completion order, each run that reached
\* finish and whether a ledger came with its result.
Absorb(f) ==
    /\ pc[f] \in {"returned", "raised"}
    /\ LET delta == IF pc[f] = "returned" THEN LedgerOfResult(out[f][1]) ELSE None
           run == [inst |-> session.cur,
                   agent |-> agent.thread_id,
                   run_id |-> mine[f][1].run_id,
                   carried |-> delta # None]
       IN  session' = [session EXCEPT
                          !.ledger = merge_metrics(@, delta),
                          !.results = IF delta # None THEN Append(@, delta) ELSE @,
                          !.runs = IF built[f] # <<>> THEN Append(@, run) ELSE @]
    /\ pc' = [pc EXCEPT ![f] = "idle"]
    /\ step' = [step EXCEPT ![f] = None]
    /\ ret' = [ret EXCEPT ![f] = None]
    /\ out' = [out EXCEPT ![f] = None]
    /\ exc' = [exc EXCEPT ![f] = None]
    /\ built' = [built EXCEPT ![f] = <<>>]
    /\ mine' = [mine EXCEPT ![f] = None]
    /\ UNCHANGED <<now, nextId, agent, restSession>>

\* A result merged before is merged again (branches that share history join).
MergeAgain(i) ==
    /\ i \in 1..Len(session.results)
    /\ session' = [session EXCEPT !.ledger = merge_metrics(@, session.results[i]),
                                  !.remerged = TRUE]
    /\ UNCHANGED <<nodeVars, restSession>>

NextSession ==
    \/ Tick
    \/ \E i \in Instances : Switch(i)
    \/ \E f \in Frames, fn \in Steps : AllIdle /\ Invoke(f, fn)
    \/ \E f \in Frames, r \in SomeReturns : StepReturns(f, r)
    \/ \E f \in Frames, e \in SomeRaised : StepRaises(f, e)
    \/ \E f \in Frames : Absorb(f)
    \/ \E i \in 1..MaxRuns : MergeAgain(i)

SpecSession == InitSession /\ [][NextSession]_vars

---------------------------------------------------------------------------
(* Claims about the session ledger *)

InSession == session # <<>>

\* The run_ids of the records the session ledger holds for thread id a, in order.
SessionIds(a) ==
    LET l == ListOf(session.ledger, a)
    IN  [i \in 1..Len(l) |-> l[i].run_id]

\* The run_ids of the runs of the instances with thread id a among rs, in order.
RunIds(rs, a) ==
    LET mineOf == SelectSeq(rs, LAMBDA r : r.agent = a)
    IN  [i \in 1..Len(mineOf) |-> Some(mineOf[i].run_id)]

\* The runs with whose result a ledger came.
CarriedRuns == SelectSeq(session.runs, LAMBDA r : r.carried)

\* C19 as stated: with the results of completed, non-overlapping runs merged in
\* completion order, some more than once, the session ledger holds exactly one
\* record per completed run, each agent's records in completion order.
C19_OneRecordPerCompletedRun ==
    InSession =>
        \A a \in {ClassOf(i) : i \in Instances} :
            SessionIds(a) = RunIds(session.runs, a)

\* C19 as amended: with the results of completed, non-overlapping runs merged in
\* completion order, some more than once, the session ledger holds exactly one
\* record per completed run whose result carries a ledger (the step returned a
\* dict, a list or a Command), each agent's records in completion order, none
\* dropped as a duplicate; a run whose step returned anything else, or raised,
\* has no record in it.
C19_OneRecordPerCarriedRun ==
    InSession =>
        /\ \A a \in {ClassOf(i) : i \in Instances} :
               SessionIds(a) = RunIds(CarriedRuns, a)
        /\ DOMAIN session.ledger = {CarriedRuns[i].agent : i \in 1..Len(CarriedRuns)}

\* Two runs of two instances with one thread id, started at the same clock and
\* as long as each other, are both in the ledger after a result was merged again.
C19_Witness ==
    /\ InSession
    /\ session.remerged
    /\ Len(session.runs) = 2
    /\ session.runs[1].inst # session.runs[2].inst
    /\ Len(ListOf(session.ledger, "A")) = 2
    /\ session.ledger["A"][1].started_at = session.ledger["A"][2].started_at
    /\ session.ledger["A"][1].duration_ms = session.ledger["A"][2].duration_ms

---------------------------------------------------------------------------
(* _finish_with on objects: the lists and dicts a step's directives hold *)

MaxCmds == 2       \* length of a list of directives a step returns

\* The lists and dicts the step made, by address; an update holds a reference
\* where its value is one of them.
ListAddrs == {1, 2}
DictAddrs == {3, 4}
Addrs == ListAddrs \cup DictAddrs

Ref(a) == [t |-> "ref", v |-> a]

\* The objects as they are when the step returns.
Heap0 ==
    [a \in Addrs |->
        IF a \in ListAddrs THEN PyList(<<a>>)
        ELSE PyDict(IF a = 3 THEN [p |-> 1] ELSE [q |-> 2])]

\* isinstance(v, list), isinstance(v, dict)
IsListAt(h, v) == v.t = "ref" /\ h[v.v].t = "list"
IsDictAt(h, v) == v.t = "ref" /\ h[v.v].t = "dict"

\* The keys of an update in the order the loop meets them. No update here holds
\* one object under two keys.
KeyOrder == <<"items", "ctx", "messages", _METRICS_KEY>>

\* One turn of the loop of _merge_updates; st holds the objects (heap) and into.
MergeKey(st, add, k) ==
    IF k \notin DOMAIN add \/ k = _METRICS_KEY
      THEN st
    ELSE IF k \in DOMAIN st.into /\ IsListAt(st.heap, st.into[k]) /\ IsListAt(st.heap, add[k])
      THEN [st EXCEPT !.heap[st.into[k].v] = PyList(@.v \o st.heap[add[k].v].v)]
    ELSE IF k \in DOMAIN st.into /\ IsDictAt(st.heap, st.into[k]) /\ IsDictAt(st.heap, add[k])
      THEN [st EXCEPT !.heap[st.into[k].v] = PyDict(DictUpdate(@.v, st.heap[add[k].v].v))]
    ELSE [st EXCEPT !.into = DictSet(@, k, add[k])]

\* _merge_updates(into, add), keys ks still to come.
RECURSIVE _merge_updates_objects(_, _, _)
_merge_updates_objects(st, add, ks) ==
    IF ks = <<>> THEN st
    ELSE _merge_updates_objects(MergeKey(st, add, Head(ks)), add, Tail(ks))

\* The loop of _finish_with over the items of a list; st holds the objects,
\* msgs, merged and has_cmd.
RECURSIVE ScanItems_objects(_, _)
ScanItems_objects(items, st) ==
    IF items = <<>>
      THEN st
      ELSE LET item == Head(items)
               after ==
                   IF IsCommand(item)
                     THEN LET upd == item.update
                              hasMsgs == "messages" \in DOMAIN upd
                              m == _merge_updates_objects(
                                       [heap |-> st.heap, into |-> st.merged],
                                       IF hasMsgs THEN DictPop(upd, "messages") ELSE upd,
                                       KeyOrder)
                          IN  [heap |-> m.heap,
                               msgs |-> IF hasMsgs
                                          THEN st.msgs \o st.heap[upd["messages"].v].v
                                          ELSE st.msgs,
                               merged |-> m.into,
                               has_cmd |-> TRUE]
                     ELSE [st EXCEPT !.msgs = AppendMsg(@, item.v)]
           IN  ScanItems_objects(Tail(items), after)

\* _finish_with for a Command or a list. Yields the instance afterwards, the
\* objects afterwards, and the value returned: its update (without the two keys
\* below), the new list under "messages" if one was made, and the record in the
\* new ledger under __metrics__.
_finish_with_objects(self, clock, h, r, node_name) ==
    LET fin == _finish_timer(self, clock, EmptyDict, TRUE, None, [node |-> node_name])
    IN  IF r.kind = "Command" THEN
            [self |-> fin.self,
             heap |-> h,
             out |-> [kind |-> "Command",
                      update |-> DictPop(r.update, _METRICS_KEY),
                      messages |-> None,
                      metric |-> fin.metric]]
        ELSE
            LET st == ScanItems_objects(r.items,
                          [heap |-> h, msgs |-> <<>>, merged |-> EmptyDict,
                           has_cmd |-> FALSE])
            IN  [self |-> fin.self,
                 heap |-> st.heap,
                 out |-> [kind |-> IF st.has_cmd THEN "Command" ELSE "dict",
                          update |-> DictPop(st.merged, _METRICS_KEY),
                          messages |-> Some(st.msgs),
                          metric |-> fin.metric]]

\* What an update may hold under each key.
NormValues(k) ==
    IF k = "items" THEN {Ref(a) : a \in ListAddrs} \cup {PyInt(0)}
    ELSE IF k = "ctx" THEN {Ref(a) : a \in DictAddrs} \cup {PyInt(0)}
    ELSE IF k = "messages" THEN {Ref(2)}
    ELSE {Ref(4)}

NormKeys == {"items", "ctx", "messages", _METRICS_KEY}

NormUpdates ==
    UNION {{u \in [K -> UNION {NormValues(k) : k \in NormKeys}] :
               \A k \in K : u[k] \in NormValues(k)} : K \in SUBSET NormKeys}

\* A directive, and a message beside directives in a list.
NormCommand(u) == [kind |-> "Command", update |-> u]
NormMessage == [kind |-> "msg", v |-> 0]

\* The directives and lists a step returns.
NormResults ==
    {NormCommand(u) : u \in NormUpdates}
      \cup {[kind |-> "list", items |-> s] :
               s \in SeqUpTo({NormCommand(u) : u \in NormUpdates} \cup {NormMessage},
                             MaxCmds)}

NormCallIdle == [pc |-> "idle", step |-> None, heap |-> Heap0, ret |-> None, out |-> None]

InitNorm ==
    /\ NodeInit /\ MergeIdle /\ SumIdle /\ TopIdle /\ ProxyIdle /\ ToolIdle /\ SessionIdle
    /\ norm = NormCallIdle

\* wrapper, up to the call of fn: self._start_timer().
NormInvoke(fn) ==
    /\ norm.pc = "idle"
    /\ nextId <= MaxRuns
    /\ agent' = _start_timer(agent, nextId, now)
    /\ nextId' = nextId + 1
    /\ norm' = [norm EXCEPT !.pc = "running", !.step = Some(fn)]
    /\ UNCHANGED <<now, pc, step, ret, out, exc, built, mine, mergeVars, sumVars, topVars,
                   proxy, toolVars, session>>

\* fn returns r: return _finish_with(self, ret, fn.__name__).
NormReturns(r) ==
    /\ norm.pc = "running"
    /\ LET fw == _finish_with_objects(agent, now, norm.heap, r, norm.step[1].name)
       IN  /\ agent' = fw.self
           /\ norm' = [norm EXCEPT !.pc = "returned", !.heap = fw.heap,
                                   !.ret = Some(r), !.out = Some(fw.out)]
    /\ UNCHANGED <<now, nextId, pc, step, ret, out, exc, built, mine, mergeVars, sumVars,
                   topVars, proxy, toolVars, session>>

\* The caller has taken the result; the next step makes its objects anew.
NormCollect ==
    /\ norm.pc = "returned"
    /\ norm' = NormCallIdle
    /\ UNCHANGED restNorm

NextNorm ==
    \/ Tick
    \/ \E fn \in Steps : NormInvoke(fn)
    \/ \E r \in NormResults : NormReturns(r)
    \/ NormCollect

SpecNorm == InitNorm /\ [][NextNorm]_vars

---------------------------------------------------------------------------
(* Claims about what normalisation does to the step's directives *)

NormReturned == norm # <<>> /\ norm.pc = "returned"

\* The directives of what the step returned.
DirectivesOf(r) ==
    IF r.kind = "Command" THEN {r}
    ELSE {r.items[i] : i \in {j \in 1..Len(r.items) : IsCommand(r.items[j])}}

\* The objects the update of directive c holds.
HeldBy(c) == {c.update[k].v : k \in {x \in DOMAIN c.update : c.update[x].t = "ref"}}

\* C20 as stated: after the wrapper returns, the list and dict values held by
\* the update of every original directive (the returned one, or each one in the
\* returned list) are equal to what they were when the step returned.
C20_DirectivesUntouched ==
    NormReturned =>
        \A c \in DirectivesOf(norm.ret[1]) :
            \A a \in HeldBy(c) : norm.heap[a] = Heap0[a]

\* A list of two directives with two lists under one key has been normalised,
\* and the list of the first now also holds the elements of the second.
C20_Witness ==
    /\ NormReturned
    /\ norm.ret[1].kind = "list"
    /\ Len(norm.ret[1].items) = 2
    /\ \A i \in 1..2 : /\ IsCommand(norm.ret[1].items[i])
                       /\ "items" \in DOMAIN norm.ret[1].items[i].update
    /\ norm.ret[1].items[1].update["items"] = Ref(1)
    /\ norm.ret[1].items[2].update["items"] = Ref(2)
    /\ norm.heap[1] = PyList(Heap0[1].v \o Heap0[2].v)
    /\ norm.heap[2] = Heap0[2]

============================================================================
